---- MODULE Spec2Model ----
(***************************************************************************)
(* A model of src/app.py: the streaming decode loop of main (lines 200 to  *)
(* 257), the non-streaming resolution of main (lines 258 to 292), and the  *)
(* helpers normalize_stream_text and extract_first_url.                    *)
(*                                                                         *)
(* Text is a sequence of Unicode code points (naturals).  A JSON text that *)
(* occurs in a line or in a response body is carried as one symbol above   *)
(* the Unicode range (JsonSym(k)) that stands for its characters; json     *)
(* decoding is the table from symbols to JSON values.  A JSON value is a   *)
(* record [type, val].                                                     *)
(***************************************************************************)
EXTENDS Naturals, Sequences, FiniteSets, TLC

VARIABLES stream, source, body, pos, pc, text_buffer, raw_lines, log_shown,
          final_text, text_shown, candidate_url, video_url, ui, exc

vars == <<stream, source, body, pos, pc, text_buffer, raw_lines, log_shown,
          final_text, text_shown, candidate_url, video_url, ui, exc>>

----------------------------------------------------------------------------
(* Characters and strings                                                  *)

\* The printable ASCII characters in code point order, from U+0020 (the grave
\* accent is written by its name).
Ascii ==
  <<" ", "!", "\"", "#", "$", "%", "&", "'", "(", ")", "*", "+", ",", "-", ".", "/",
    "0", "1", "2", "3", "4", "5", "6", "7", "8", "9", ":", ";", "<", "=", ">", "?",
    "@", "A", "B", "C", "D", "E", "F", "G", "H", "I", "J", "K", "L", "M", "N", "O",
    "P", "Q", "R", "S", "T", "U", "V", "W", "X", "Y", "Z", "[", "\\", "]", "^", "_",
    "U+0060", "a", "b", "c", "d", "e", "f", "g", "h", "i", "j", "k", "l", "m", "n", "o",
    "p", "q", "r", "s", "t", "u", "v", "w", "x", "y", "z", "{", "|", "}", "~">>

\* The code point of a printable ASCII character.
Ord(c) == 31 + (CHOOSE i \in 1..Len(Ascii) : Ascii[i] = c)

\* A string literal, written as a tuple of characters, as code points.
Cp(s) == [i \in 1..Len(s) |-> Ord(s[i])]

\* str.isspace() of one code point: what str.strip() removes and what the
\* pattern class \s matches on a str.
IsSpace(c) ==
  \/ c \in {9, 10, 11, 12, 13, 28, 29, 30, 31, 32, 133, 160}
  \/ c \in {5760, 8232, 8233, 8239, 8287, 12288}
  \/ (8192 <= c /\ c <= 8202)

RECURSIVE LStrip(_)
LStrip(s) == IF s /= <<>> /\ IsSpace(Head(s)) THEN LStrip(Tail(s)) ELSE s

RECURSIVE RStrip(_)
RStrip(s) ==
  IF s /= <<>> /\ IsSpace(s[Len(s)]) THEN RStrip(SubSeq(s, 1, Len(s) - 1)) ELSE s

\* str.strip()
Strip(s) == RStrip(LStrip(s))

\* str.startswith(p) and str.endswith(p)
StartsWith(s, p) == Len(s) >= Len(p) /\ SubSeq(s, 1, Len(p)) = p
EndsWith(s, p) == Len(s) >= Len(p) /\ SubSeq(s, Len(s) - Len(p) + 1, Len(s)) = p

\* s.split(p, 1)[1] for an s that contains p: what follows the first
\* occurrence of p.
SplitOnceAfter(s, p) ==
  LET at == CHOOSE i \in 1..Len(s) :
              /\ StartsWith(SubSeq(s, i, Len(s)), p)
              /\ \A j \in 1..(i - 1) : ~StartsWith(SubSeq(s, j, Len(s)), p)
  IN SubSeq(s, at + Len(p), Len(s))

\* str.lower() of one code point, for ASCII and Latin-1 letters.
LowerChar(c) ==
  IF (65 <= c /\ c <= 90) \/ (192 <= c /\ c <= 222 /\ c /= 215) THEN c + 32 ELSE c

\* str.lower()
Lower(s) == [i \in 1..Len(s) |-> LowerChar(s[i])]

\* "".join(parts)
RECURSIVE Join(_)
Join(parts) == IF parts = <<>> THEN <<>> ELSE Head(parts) \o Join(Tail(parts))

DATA_PREFIX == Cp(<<"d", "a", "t", "a", ":">>)
DONE == Cp(<<"[", "D", "O", "N", "E", "]">>)

----------------------------------------------------------------------------
(* normalize_stream_text                                                   *)

\* bytes.decode("utf-8") of a byte sequence, strict: [ok, text].  One, two,
\* three and four byte forms, without overlong forms and surrogates.
RECURSIVE Utf8Decode(_)
Utf8Decode(bs) ==
  IF bs = <<>> THEN [ok |-> TRUE, text |-> <<>>]
  ELSE
    LET b1 == bs[1]
        Cont(i) == i <= Len(bs) /\ 128 <= bs[i] /\ bs[i] <= 191
        need == IF b1 < 128 THEN 1
                ELSE IF 194 <= b1 /\ b1 <= 223 THEN 2
                ELSE IF 224 <= b1 /\ b1 <= 239 THEN 3
                ELSE IF 240 <= b1 /\ b1 <= 244 THEN 4
                ELSE 0
        wellFormed ==
          /\ need > 0
          /\ \A i \in 2..need : Cont(i)
          /\ (b1 = 224 => bs[2] >= 160)
          /\ (b1 = 237 => bs[2] <= 159)
          /\ (b1 = 240 => bs[2] >= 144)
          /\ (b1 = 244 => bs[2] <= 143)
        cp == IF need = 1 THEN b1
              ELSE IF need = 2 THEN (b1 - 192) * 64 + (bs[2] - 128)
              ELSE IF need = 3
                THEN (b1 - 224) * 4096 + (bs[2] - 128) * 64 + (bs[3] - 128)
              ELSE (b1 - 240) * 262144 + (bs[2] - 128) * 4096
                     + (bs[3] - 128) * 64 + (bs[4] - 128)
    IN IF ~wellFormed THEN [ok |-> FALSE, text |-> <<>>]
       ELSE LET rest == Utf8Decode(SubSeq(bs, need + 1, Len(bs)))
            IN [ok |-> rest.ok, text |-> <<cp>> \o rest.text]

\* str.encode("latin1") succeeds exactly when every code point is a byte.
Latin1Encodable(text) == \A i \in 1..Len(text) : text[i] <= 255

\* normalize_stream_text(text): [exc, text].  The encode step raises
\* UnicodeEncodeError, which the except clause (UnicodeDecodeError) does not
\* catch; a failed decode step returns the text as it came.
normalize_stream_text(text) ==
  IF ~Latin1Encodable(text) THEN [exc |-> "UnicodeEncodeError", text |-> text]
  ELSE LET d == Utf8Decode(text)
       IN IF d.ok THEN [exc |-> "none", text |-> d.text]
          ELSE [exc |-> "none", text |-> text]

----------------------------------------------------------------------------
(* extract_first_url                                                       *)

HTTP == Cp(<<"h", "t", "t", "p">>)
COLON_SLASHES == Cp(<<":", "/", "/">>)

\* Where the pattern https?://[^\s]+ matches at position i of text: the
\* position of the last character of the (greedy) match, or 0 for no match.
UrlMatchEnd(text, i) ==
  LET t == SubSeq(text, i, Len(text))
      scheme == IF StartsWith(t, HTTP \o Cp(<<"s">>) \o COLON_SLASHES) THEN 8
                ELSE IF StartsWith(t, HTTP \o COLON_SLASHES) THEN 7
                ELSE 0
      first == i + scheme
  IN IF scheme = 0 \/ first > Len(text) \/ IsSpace(text[first]) THEN 0
     ELSE CHOOSE e \in first..Len(text) :
            /\ \A j \in first..e : ~IsSpace(text[j])
            /\ (e = Len(text) \/ IsSpace(text[e + 1]))

\* The extraction returning the last match (urls[-1]) instead of the first.
extract_last_url(text) ==
  LET starts == {i \in 1..Len(text) : UrlMatchEnd(text, i) > 0}
  IN IF starts = {} THEN <<>>
     ELSE LET i == CHOOSE k \in starts : \A m \in starts : k >= m
          IN <<SubSeq(text, i, UrlMatchEnd(text, i))>>

\* extract_first_url(text): the first match of re.findall, <<>> for None and
\* <<url>> otherwise.
extract_first_url(text) ==
  LET starts == {i \in 1..Len(text) : UrlMatchEnd(text, i) > 0}
  IN IF starts = {} THEN <<>>
     ELSE LET i == CHOOSE k \in starts : \A m \in starts : k <= m
          IN <<SubSeq(text, i, UrlMatchEnd(text, i))>>

\* The tuple of suffixes given to str.endswith at lines 240 and 282.
MEDIA_SUFFIXES ==
  { Cp(<<".", "m", "p", "4">>), Cp(<<".", "m", "o", "v">>),
    Cp(<<".", "w", "e", "b", "m">>), Cp(<<".", "m", "k", "v">>) }

\* url.lower().endswith((".mp4", ".mov", ".webm", ".mkv"))
IsMediaUrl(url) == \E suf \in MEDIA_SUFFIXES : EndsWith(Lower(url), suf)

----------------------------------------------------------------------------
(* JSON values: [type, val] with type one of null, bool, int, str, list,   *)
(* dict; a dict's val is a function from its keys, a list's a sequence.    *)

JNull == [type |-> "null", val |-> 0]
JInt(n) == [type |-> "int", val |-> n]
JStr(s) == [type |-> "str", val |-> s]
JList(items) == [type |-> "list", val |-> items]
JDict(fields) == [type |-> "dict", val |-> fields]
EmptyDict == JDict(<<>>)

\* Python truthiness: bool(v)
Truthy(v) ==
  CASE v.type = "null" -> FALSE
    [] v.type = "bool" -> v.val
    [] v.type = "int" -> v.val /= 0
    [] v.type = "str" -> v.val /= <<>>
    [] v.type = "list" -> v.val /= <<>>
    [] v.type = "dict" -> DOMAIN v.val /= {}

\* v.get(key, default): [exc, val].  Only a dict has the method.
Get(v, key, default) ==
  IF v.type /= "dict" THEN [exc |-> "AttributeError", val |-> JNull]
  ELSE IF key \in DOMAIN v.val THEN [exc |-> "none", val |-> v.val[key]]
  ELSE [exc |-> "none", val |-> default]

\* v[0] of a truthy v: [exc, val].  A list gives its first item, a str its
\* first character, a dict has no key 0 (JSON keys are strings), a number is
\* not subscriptable.
Index0(v) ==
  CASE v.type = "list" -> [exc |-> "none", val |-> v.val[1]]
    [] v.type = "str" -> [exc |-> "none", val |-> JStr(<<v.val[1]>>)]
    [] v.type = "dict" -> [exc |-> "KeyError", val |-> JNull]
    [] OTHER -> [exc |-> "TypeError", val |-> JNull]

\* A result without an exception.
Ok(v) == [exc |-> "none", val |-> v]

\* The symbol that stands for the characters of JSON text number k.
JsonSym(k) == 1114112 + k

\* The chunk {"choices":[{"delta":{"content": c}}]}
Chunk(c) == JDict([choices |-> JList(<<JDict([delta |-> JDict([content |-> c])])>>)])

\* The response {"choices":[{"message":{"content": c}}]}
Response(c) ==
  JDict([choices |-> JList(<<JDict([message |-> JDict([content |-> c])])>>)])

\* The content fragments the modelled chunks carry.
Fragments ==
  << Cp(<<"A">>),                                                     \* 1
     Cp(<<"B">>),                                                     \* 2
     Cp(<<" ">>),                                                     \* 3
     Cp(<<"h", "t", "t", "p", ":", "/", "/", "h", "/", "p", ".", "h", "t", "m", "l">>),
     Cp(<<"h", "t", "t", "p", "s", ":", "/", "/", "h", "/", "v", ".", "M", "P", "4">>),
     Cp(<<"h", "t", "t", "p", ":", "/", "/", "h", "/", "v", ".", "m", "k", "v", "?", "x">>),
     Cp(<<"h", "t", "t", "p", ":", "/", "/">>),                       \* 7
     <<195, 169>>,           \* 8: U+00E9 read through latin-1
     <<233>>,                \* 9: U+00E9, not UTF-8 as a byte
     <<20013>>,              \* 10: U+4E2D, a CJK character
     <<228, 184, 173>> >>    \* 11: U+4E2D read through latin-1

\* The JSON value that JSON text number k is.  1 to Len(Fragments): a chunk
\* carrying that fragment; 101 to 114: frames without the chunk shape; 201
\* to 217: non-streaming response bodies.
JsonDoc(k) ==
  CASE k \in 1..Len(Fragments) -> Chunk(JStr(Fragments[k]))
    [] k = 101 -> JInt(5)
    [] k = 102 -> JList(<<>>)
    [] k = 103 -> EmptyDict
    [] k = 104 -> JDict([choices |-> JList(<<>>)])
    [] k = 105 -> JDict([choices |-> JList(<<JInt(1)>>)])
    [] k = 106 -> JDict([choices |-> JList(<<JDict([delta |-> JStr(Cp(<<"x">>))])>>)])
    [] k = 107 -> JDict([choices |-> JList(<<JDict([delta |-> JNull])>>)])
    [] k = 108 -> JDict([choices |-> JList(<<EmptyDict>>)])
    [] k = 109 -> JDict([choices |-> JList(<<JDict([delta |-> EmptyDict])>>)])
    [] k = 110 -> Chunk(JInt(5))
    [] k = 111 -> Chunk(JStr(<<>>))
    [] k = 112 -> Chunk(JNull)
    [] k = 113 -> JDict([choices |-> JDict([a |-> JInt(1)])])
    [] k = 114 -> JNull
    [] k = 201 -> Response(JList(<<JDict([url |->
                    JStr(Cp(<<"h", "t", "t", "p", "s", ":", "/", "/", "x", ".", "c", "o",
                              "m", "/", "v", ".", "w", "e", "b", "m">>))])>>))
    [] k = 202 -> Response(JList(<<JDict([text |->
                    JStr(Cp(<<"h", "e", "l", "l", "o">>))])>>))
    [] k = 203 -> Response(JList(<<JStr(Fragments[4])>>))
    [] k = 204 -> EmptyDict
    [] k = 205 -> JDict([choices |-> JList(<<EmptyDict>>)])
    [] k = 206 -> JDict([choices |-> JList(<<JDict([message |-> EmptyDict])>>)])
    [] k = 207 -> JDict([choices |-> JList(<<JDict([message |-> JNull])>>)])
    [] k = 208 -> JDict([choices |-> JList(<<JInt(1)>>)])
    [] k = 209 -> Response(JList(<<>>))
    [] k = 210 -> Response(JList(<<EmptyDict>>))
    [] k = 211 -> Response(JStr(Cp(<<"s", "e", "e", " ">>) \o Fragments[5]))
    [] k = 212 -> JList(<<JInt(1), JInt(2)>>)
    [] k = 213 -> Response(JList(<<JDict([url |-> JStr(<<>>),
                                          text |-> JStr(Fragments[5])])>>))
    [] k = 214 -> Response(JList(<<JDict([text |->
                    JStr(Fragments[5] \o Cp(<<" ", "n", "o", "w">>))])>>))
    [] k = 215 -> Response(JList(<<JDict([url |-> JInt(5)])>>))
    [] k = 216 -> Response(JList(<<JInt(5)>>))
    [] k = 217 -> Response(JList(<<JStr(Fragments[5]), JStr(Fragments[4])>>))

ResponseDocs == 201..217

\* json.loads(text) / response.json(): [ok, val]; not ok is JSONDecodeError.
\* JSON white space around the document is skipped.  Over the modelled
\* texts, a text is a JSON document exactly when it is one JSON symbol.
JsonLoads(text) ==
  LET IsJsonWs(c) == c \in {9, 10, 13, 32}
      lead == CHOOSE n \in 0..Len(text) :
                /\ \A i \in 1..n : IsJsonWs(text[i])
                /\ (n = Len(text) \/ ~IsJsonWs(text[n + 1]))
      t == SubSeq(text, lead + 1, Len(text))
      trail == CHOOSE n \in 0..Len(t) :
                 /\ \A i \in (Len(t) - n + 1)..Len(t) : IsJsonWs(t[i])
                 /\ (n = Len(t) \/ ~IsJsonWs(t[Len(t) - n]))
      doc == SubSeq(t, 1, Len(t) - trail)
  IN IF Len(doc) = 1 /\ doc[1] >= JsonSym(1)
       THEN [ok |-> TRUE, val |-> JsonDoc(doc[1] - JsonSym(0))]
       ELSE [ok |-> FALSE, val |-> JNull]

----------------------------------------------------------------------------
(* The streaming loop body, lines 207 to 233                               *)

\* Lines 209 to 210: the text after an optional data: prefix.
StripPrefix(raw_line) ==
  IF StartsWith(raw_line, DATA_PREFIX)
    THEN Strip(SplitOnceAfter(raw_line, DATA_PREFIX))
    ELSE raw_line

\* The sentinel test comparing with the marker without its brackets.
IsDoneBare(line) == line = Cp(<<"D", "O", "N", "E">>)

\* Line 212: the sentinel test.
IsDone(line) == line = DONE

\* Lines 226 to 233 on a decoded chunk: [exc, pieces], pieces being what
\* text_buffer.append receives (none or one string).
ExtractContent(chunk) ==
  LET none == [exc |-> "none", pieces |-> <<>>]
      Raise(e) == [exc |-> e, pieces |-> <<>>]
      choices == Get(chunk, "choices", JList(<<>>))
  IN IF choices.exc /= "none" THEN Raise(choices.exc)
     ELSE IF ~Truthy(choices.val) THEN none
     ELSE LET c0 == Index0(choices.val)
          IN IF c0.exc /= "none" THEN Raise(c0.exc)
             ELSE LET d == Get(c0.val, "delta", JNull)
                  IN IF d.exc /= "none" THEN Raise(d.exc)
                     ELSE LET delta == IF Truthy(d.val) THEN d.val ELSE EmptyDict
                              content_piece == Get(delta, "content", JNull)
                          IN IF content_piece.exc /= "none" THEN Raise(content_piece.exc)
                             ELSE IF ~Truthy(content_piece.val) THEN none
                             ELSE IF content_piece.val.type /= "str"
                               THEN Raise("AttributeError")
                             ELSE LET n == normalize_stream_text(content_piece.val.val)
                                  IN IF n.exc /= "none" THEN Raise(n.exc)
                                     ELSE [exc |-> "none", pieces |-> <<n.text>>]

\* The append putting the piece in front of the buffer.
PrependPieces(buffer, pieces) == pieces \o buffer

\* text_buffer.append(piece), line 233.
AppendPieces(buffer, pieces) == buffer \o pieces

\* raw_lines[-40:], line 217.
LOG_TAIL == 40
LastN(seq, n) == IF Len(seq) <= n THEN seq ELSE SubSeq(seq, Len(seq) - n + 1, Len(seq))

\* "\n".join(lines)
RECURSIVE JoinLines(_)
JoinLines(lines) ==
  IF lines = <<>> THEN <<>>
  ELSE IF Len(lines) = 1 THEN lines[1]
  ELSE lines[1] \o <<10>> \o JoinLines(Tail(lines))

\* Lines 216 to 219: what the log placeholder shows.
EMPTY_LOG == <<40, 31354, 41>>
RenderLog(lines) ==
  LET joined == JoinLines(LastN(lines, LOG_TAIL))
  IN IF joined /= <<>> THEN joined ELSE EMPTY_LOG

----------------------------------------------------------------------------
(* Non-streaming resolution, lines 269 to 280                              *)

\* The value of video_url after lines 269 to 280: [exc, val], JNull for None.
ExtractVideoUrl(data) ==
  IF data.type /= "dict" THEN Ok(JNull)
  ELSE LET choices == Get(data, "choices", JList(<<>>)).val
       IN IF ~Truthy(choices) THEN Ok(JNull)
          ELSE LET c0 == Index0(choices)
               IN IF c0.exc /= "none" THEN c0
                  ELSE LET message == Get(c0.val, "message", EmptyDict)
                       IN IF message.exc /= "none" THEN message
                          ELSE LET contents == Get(message.val, "content", JList(<<>>))
                               IN IF contents.exc /= "none" THEN contents
                                  ELSE IF ~Truthy(contents.val) THEN Ok(JNull)
                                  ELSE LET first_item == Index0(contents.val)
                                       IN IF first_item.exc /= "none" THEN first_item
                                          ELSE IF first_item.val.type = "dict"
                                            THEN LET u == Get(first_item.val, "url", JNull).val
                                                 IN IF Truthy(u) THEN Ok(u)
                                                    ELSE Get(first_item.val, "text", JNull)
                                          ELSE IF first_item.val.type = "str"
                                            THEN first_item
                                          ELSE Ok(JNull)

----------------------------------------------------------------------------
(* Inputs                                                                  *)

\* The longest streams of framing lines and of URL fragments, and of frames
\* without the chunk shape and of encoded fragments.
MaxLines == 3
MaxShapeLines == 2

SeqsUpTo(S, n) == UNION {[1..m -> S] : m \in 0..n}

\* The line  data: <JSON text k>
Framed(k) == DATA_PREFIX \o <<32>> \o <<JsonSym(k)>>

\* Lines that exercise the framing: empty, blank, a bare prefix, the
\* sentinel in its spellings, a chunk with and without prefix, a non-JSON
\* line.
FramingLines ==
  { <<>>,
    <<32, 32>>,
    DATA_PREFIX,
    DATA_PREFIX \o <<32, 32>>,
    DONE,
    DATA_PREFIX \o DONE,
    DATA_PREFIX \o <<32>> \o DONE,
    DATA_PREFIX \o <<9>> \o DONE \o <<32>>,
    <<32>> \o DONE,
    DATA_PREFIX \o DATA_PREFIX \o DONE,
    DATA_PREFIX \o <<32>> \o Cp(<<"x">>),
    Framed(1),
    <<32, JsonSym(2), 32>> }

ShapeLines == {Framed(k) : k \in (101..114) \cup {1, 2}}
\* Chunks carrying text and URL fragments, and the sentinel.
FragmentLines == {Framed(k) : k \in 1..7} \cup {DATA_PREFIX \o <<32>> \o DONE}
EncodedLines == {Framed(k) : k \in {1, 8, 9, 10, 11}}

\* One stream longer than the log tail, of alternating chunks.
LongSources == { [i \in 1..(LOG_TAIL + 1) |-> Framed(1 + (i % 2))] }

Sources ==
  SeqsUpTo(FramingLines, MaxLines) \cup SeqsUpTo(FragmentLines, MaxLines)
    \cup SeqsUpTo(ShapeLines, MaxShapeLines)
    \cup SeqsUpTo(EncodedLines, MaxShapeLines) \cup LongSources

\* Response bodies: each JSON text of ResponseDocs, and one that is not JSON.
Bodies == {<<JsonSym(k)>> : k \in ResponseDocs} \cup {Cp(<<"<", "h", "t", "m", "l", ">">>)}

----------------------------------------------------------------------------
(* main, from line 200: the response is open and its status is ok          *)

Init ==
  /\ stream \in BOOLEAN
  /\ source \in (IF stream THEN Sources ELSE {<<>>})
  /\ body \in (IF stream THEN {<<>>} ELSE Bodies)
  /\ pos = 0
  /\ pc = IF stream THEN "stream" ELSE "json"
  /\ text_buffer = <<>>
  /\ raw_lines = <<>>
  /\ log_shown = <<>>
  /\ final_text = <<>>
  /\ text_shown = <<>>
  /\ candidate_url = <<>>
  /\ video_url = <<>>
  /\ ui = "none"
  /\ exc = "none"

\* One iteration of the for loop, lines 206 to 233.
ReadLine ==
  /\ pc = "stream"
  /\ pos < Len(source)
  /\ pos' = pos + 1
  /\ LET raw_line == source[pos + 1]
         line == StripPrefix(raw_line)
         chunk == JsonLoads(line)
         got == ExtractContent(chunk.val)
     IN IF raw_line = <<>>
          THEN UNCHANGED <<pc, text_buffer, raw_lines, log_shown, exc>>
        ELSE IF IsDone(line)
          THEN /\ pc' = "after_loop"
               /\ UNCHANGED <<text_buffer, raw_lines, log_shown, exc>>
        ELSE /\ raw_lines' = Append(raw_lines, line)
             /\ log_shown' = RenderLog(raw_lines')
             /\ IF ~chunk.ok
                  THEN UNCHANGED <<pc, text_buffer, exc>>
                ELSE IF got.exc /= "none"
                  THEN /\ pc' = "raised"
                       /\ exc' = got.exc
                       /\ UNCHANGED text_buffer
                ELSE /\ text_buffer' = AppendPieces(text_buffer, got.pieces)
                     /\ UNCHANGED <<pc, exc>>
  /\ UNCHANGED <<stream, source, body, final_text, text_shown, candidate_url,
                 video_url, ui>>

\* iter_lines is exhausted: the for loop ends, line 206.
EndOfStream ==
  /\ pc = "stream"
  /\ pos = Len(source)
  /\ pc' = "after_loop"
  /\ UNCHANGED <<stream, source, body, pos, text_buffer, raw_lines, log_shown,
                 final_text, text_shown, candidate_url, video_url, ui, exc>>

\* iter_lines raises (the read fails, the connection drops): nothing in
\* main catches it, the run ends at line 206.
TransportDrop ==
  /\ pc = "stream"
  /\ pc' = "raised"
  /\ exc' = "ChunkedEncodingError"
  /\ UNCHANGED <<stream, source, body, pos, text_buffer, raw_lines, log_shown,
                 final_text, text_shown, candidate_url, video_url, ui>>

\* After the loop, lines 235 to 257.
ResolveStream ==
  /\ pc = "after_loop"
  /\ pc' = "done"
  /\ final_text' = Strip(Join(text_buffer))
  /\ IF final_text' /= <<>>
       THEN /\ text_shown' = <<final_text'>>
            /\ candidate_url' = extract_first_url(final_text')
            /\ video_url' = IF candidate_url' /= <<>> /\ IsMediaUrl(candidate_url'[1])
                              THEN candidate_url' ELSE <<>>
            /\ ui' = IF video_url' /= <<>> THEN "video"
                     ELSE IF candidate_url' /= <<>> THEN "warning"
                     ELSE "info_no_link"
       ELSE /\ ui' = "info_no_text"
            /\ UNCHANGED <<text_shown, candidate_url, video_url>>
  /\ UNCHANGED <<stream, source, body, pos, text_buffer, raw_lines, log_shown, exc>>

\* The non-streaming branch, lines 259 to 292.
ResolveJson ==
  /\ pc = "json"
  /\ LET data == JsonLoads(body)
         v == ExtractVideoUrl(data.val)
     IN IF ~data.ok
          THEN /\ pc' = "stopped"
               /\ ui' = "error_not_json"
               /\ UNCHANGED <<video_url, exc>>
        ELSE IF v.exc /= "none"
          THEN /\ pc' = "raised"
               /\ exc' = v.exc
               /\ UNCHANGED <<video_url, ui>>
        ELSE IF ~Truthy(v.val)
          THEN /\ pc' = "done"
               /\ ui' = "json_only"
               /\ UNCHANGED <<video_url, exc>>
        ELSE IF v.val.type /= "str"
          THEN /\ pc' = "raised"
               /\ exc' = "AttributeError"
               /\ UNCHANGED <<video_url, ui>>
        ELSE /\ pc' = "done"
             /\ video_url' = <<v.val.val>>
             /\ ui' = IF IsMediaUrl(v.val.val) THEN "video" ELSE "warning"
             /\ UNCHANGED exc
  /\ UNCHANGED <<stream, source, body, pos, text_buffer, raw_lines, log_shown,
                 final_text, text_shown, candidate_url>>

Next == ReadLine \/ EndOfStream \/ TransportDrop \/ ResolveStream \/ ResolveJson

Spec == Init /\ [][Next]_vars

----------------------------------------------------------------------------
(* The claims                                                              *)

\* The lines read so far, and the line read last.
LinesRead == SubSeq(source, 1, pos)
LastLine == source[pos]

\* A line that is [DONE] once an optional data: prefix and the white space
\* after the colon are taken off, spelled without StripPrefix.
SentinelLine(l) ==
  \/ l = DONE
  \/ /\ StartsWith(l, DATA_PREFIX)
     /\ LStrip(SubSeq(l, Len(DATA_PREFIX) + 1, Len(l))) = DONE

\* C1: in streaming mode, reading a line that is the sentinel (after an
\* optional data: prefix and the white space after the colon) ends the loop
\* without touching the accumulated text or the log, and once the loop has
\* ended no further line is read and neither the text nor the log changes.
C1_SentinelTerminates ==
  [][ /\ ( /\ pc = "stream"
           /\ pos < Len(source)
           /\ pos' = pos + 1
           /\ SentinelLine(source[pos + 1]) )
         => ( /\ pc' = "after_loop"
              /\ text_buffer' = text_buffer
              /\ raw_lines' = raw_lines
              /\ log_shown' = log_shown )
      /\ pc \in {"after_loop", "done"}
         => ( /\ pos' = pos
              /\ text_buffer' = text_buffer
              /\ raw_lines' = raw_lines
              /\ log_shown' = log_shown ) ]_vars

\* C1 witness: a session that ended on a prefixed sentinel with input left
\* unread after it and text accumulated before it.
C1_Witness ==
  /\ pc = "done"
  /\ pos > 1
  /\ pos < Len(source)
  /\ StartsWith(LastLine, DATA_PREFIX)
  /\ SentinelLine(LastLine)
  /\ text_buffer /= <<>>

\* The fragments, in arrival order, that the lines carry: for each line that
\* decodes to a chunk, its non-empty normalized choices[0].delta.content.
RECURSIVE FragmentsOf(_)
FragmentsOf(lines) ==
  IF lines = <<>> THEN <<>>
  ELSE LET last == lines[Len(lines)]
           chunk == JsonLoads(StripPrefix(last))
           got == IF last /= <<>> /\ chunk.ok
                    THEN ExtractContent(chunk.val).pieces ELSE <<>>
       IN FragmentsOf(SubSeq(lines, 1, Len(lines) - 1)) \o got

\* C2: in streaming mode the accumulated text is the concatenation, in
\* arrival order, of the fragments of the lines read, each kept once per
\* arrival; the final text is that concatenation, stripped.
C2_TextIsOrderedConcatenation ==
  stream =>
    /\ text_buffer = FragmentsOf(LinesRead)
    /\ pc = "done" => final_text = Strip(Join(FragmentsOf(LinesRead)))

\* C2 witness: the frames A, B and the sentinel gave the final text AB.
C2_Witness ==
  /\ pc = "done"
  /\ source = <<Framed(1), Framed(2), DATA_PREFIX \o <<32>> \o DONE>>
  /\ final_text = Cp(<<"A", "B">>)

\* A frame as the expected chunk shape has it: an object whose choices is a
\* non-empty list, whose first choice is an object with an object delta
\* that has a string content.
HasChunkShape(v) ==
  /\ v.type = "dict"
  /\ "choices" \in DOMAIN v.val
  /\ v.val["choices"].type = "list"
  /\ v.val["choices"].val /= <<>>
  /\ LET c0 == v.val["choices"].val[1]
     IN /\ c0.type = "dict"
        /\ "delta" \in DOMAIN c0.val
        /\ c0.val["delta"].type = "dict"
        /\ "content" \in DOMAIN c0.val["delta"].val
        /\ c0.val["delta"].val["content"].type = "str"

\* A frame (a non-empty line that the decoder does not take for the
\* sentinel) that is not JSON, or is JSON without the chunk shape.
MalformedFrame(l) ==
  /\ l /= <<>>
  /\ ~IsDone(StripPrefix(l))
  /\ LET chunk == JsonLoads(StripPrefix(l))
     IN ~chunk.ok \/ ~HasChunkShape(chunk.val)

\* C3: reading a malformed frame never raises: the frame is appended to the
\* log, the accumulated text is unchanged and the loop goes on.
C3_MalformedFrameAbsorbed ==
  [][ ( /\ pc = "stream"
        /\ pos < Len(source)
        /\ pos' = pos + 1
        /\ MalformedFrame(source[pos + 1]) )
      => ( /\ pc' = "stream"
           /\ exc' = "none"
           /\ raw_lines' = Append(raw_lines, StripPrefix(source[pos + 1]))
           /\ text_buffer' = text_buffer ) ]_vars

\* C4: when the transport fails in mid-stream the text accumulated so far is
\* kept as the final text and shown.
C4_PartialResultShown ==
  (pc = "raised" /\ exc = "ChunkedEncodingError") =>
    /\ final_text = Strip(Join(text_buffer))
    /\ final_text /= <<>> => text_shown = <<final_text>>

\* The first URL of a text, spelled without extract_first_url: the longest
\* run without white space that starts at the least position where http://
\* or https:// is followed by a character that is not white space.
UrlStartsAt(t, i) ==
  \E n \in {7, 8} :
    /\ i + n <= Len(t)
    /\ SubSeq(t, i, i + n - 1) \in
         {Cp(<<"h", "t", "t", "p", ":", "/", "/">>),
          Cp(<<"h", "t", "t", "p", "s", ":", "/", "/">>)}
    /\ ~IsSpace(t[i + n])

FirstUrl(t) ==
  IF \A i \in 1..Len(t) : ~UrlStartsAt(t, i) THEN <<>>
  ELSE LET i == CHOOSE k \in 1..Len(t) :
                  UrlStartsAt(t, k) /\ \A m \in 1..(k - 1) : ~UrlStartsAt(t, m)
           e == CHOOSE k \in i..Len(t) :
                  /\ \A m \in i..k : ~IsSpace(t[m])
                  /\ (k = Len(t) \/ IsSpace(t[k + 1]))
       IN <<SubSeq(t, i, e)>>

\* The classification of a text by its first URL alone.
ClassOfText(t) ==
  LET u == FirstUrl(t)
  IN IF u = <<>> THEN "NoLink"
     ELSE IF \E suf \in MEDIA_SUFFIXES :
               /\ Len(u[1]) >= Len(suf)
               /\ Lower(SubSeq(u[1], Len(u[1]) - Len(suf) + 1, Len(u[1]))) = suf
       THEN "RecognizedMedia"
     ELSE "UnrecognizedLink"

\* The classification a rendered branch stands for.
Classification ==
  CASE ui = "video" -> "RecognizedMedia"
    [] ui = "warning" -> "UnrecognizedLink"
    [] ui \in {"info_no_link", "info_no_text", "json_only"} -> "NoLink"
    [] OTHER -> "none"

BlankLine(l) ==
  \/ Strip(l) = <<>>
  \/ /\ StartsWith(l, DATA_PREFIX)
     /\ Strip(SubSeq(l, Len(DATA_PREFIX) + 1, Len(l))) = <<>>

\* C6: reading a blank line adds nothing to the accumulated text and no
\* entry to the log.
C6_BlankLineLeavesNoTrace ==
  [][ ( /\ pc = "stream"
        /\ pos < Len(source)
        /\ pos' = pos + 1
        /\ BlankLine(source[pos + 1]) )
      => ( /\ text_buffer' = text_buffer
           /\ raw_lines' = raw_lines ) ]_vars

\* The decoded responses whose nested structure is malformed: choices,
\* message or content missing, a null message, a first choice that is not
\* an object, an empty content list, a first item without url and text.
MalformedResponses == {<<JsonSym(k)>> : k \in 204..210}

\* C7: in non-streaming mode a decoded response with a malformed nested
\* structure resolves to no candidate and NoLink, without an exception.
C7_MalformedResponseIsNoLink ==
  (~stream /\ pc /= "json" /\ body \in MalformedResponses) =>
    /\ pc = "done"
    /\ exc = "none"
    /\ video_url = <<>>
    /\ Classification = "NoLink"

\* C8: in non-streaming mode the candidate shown is the first URL match of
\* the extracted value and the classification is that of the match, so a
\* value without a URL gives no candidate and NoLink.
C8_SameRuleWithoutStreaming ==
  (~stream /\ pc = "done" /\ video_url /= <<>>) =>
    /\ FirstUrl(video_url[1]) = video_url
    /\ Classification = ClassOfText(video_url[1])

\* C9: the log held by the decoder never has more than LOG_TAIL entries.
C9_LogIsBounded == Len(raw_lines) <= LOG_TAIL

\* A fragment whose reading as latin-1 bytes holding UTF-8 fails.
ReinterpretationFails(f) ==
  \/ \E i \in 1..Len(f) : f[i] > 255
  \/ ~Utf8Decode(f).ok

\* C10: normalization never raises: after a chunk whose fragment cannot be
\* re-interpreted the loop goes on and the fragment is the last piece of the
\* accumulated text, unmodified.
C10_NormalizeFallsBack ==
  \A k \in 1..Len(Fragments) :
    ( /\ stream
      /\ pos > 0
      /\ LastLine = Framed(k)
      /\ ReinterpretationFails(Fragments[k])
      /\ exc /= "ChunkedEncodingError" )
    => ( /\ exc = "none"
         /\ text_buffer /= <<>>
         /\ text_buffer[Len(text_buffer)] = Fragments[k] )

====
